---- MODULE Spec2Model ----
(***************************************************************************)
(* The Gemini intake router of petmon (server/app/routers/gemini.py):      *)
(* /gemini/parse, /gemini/analyze and /gemini/chat.                        *)
(*                                                                         *)
(* Texts are sequences of characters, each character a one-letter string   *)
(* (a CJK character is named by its code point, "u660e").  The model's     *)
(* reply is a sequence of lexical tokens (code-fence markers, whitespace,  *)
(* non-JSON text, one JSON document), a JSON document is a record with one *)
(* field per key the handlers read.                                        *)
(***************************************************************************)
EXTENDS Integers, Sequences, FiniteSets, Bags, TLC

(***************************************************************************)
(* Bounds of the model.                                                    *)
(***************************************************************************)
\* the raw input is a concatenation of at most MaxWords words of a vocabulary
MaxWords == 2

(***************************************************************************)
(* Python str primitives.                                                  *)
(***************************************************************************)
UpperChars ==
  <<"A","B","C","D","E","F","G","H","I","J","K","L","M",
    "N","O","P","Q","R","S","T","U","V","W","X","Y","Z">>

LowerChars ==
  <<"a","b","c","d","e","f","g","h","i","j","k","l","m",
    "n","o","p","q","r","s","t","u","v","w","x","y","z">>

DigitChars == <<"0","1","2","3","4","5","6","7","8","9">>

SpaceChars == {" ", "\n", "\t"}

DigitSet == {DigitChars[i] : i \in 1..Len(DigitChars)}

IndexIn(c, table) == CHOOSE i \in 1..Len(table) : table[i] = c

IsIn(c, table) == \E i \in 1..Len(table) : table[i] = c

LowerChar(c) == IF IsIn(c, UpperChars) THEN LowerChars[IndexIn(c, UpperChars)] ELSE c

UpperChar(c) == IF IsIn(c, LowerChars) THEN UpperChars[IndexIn(c, LowerChars)] ELSE c

\* str.lower()
Lower(s) == [i \in 1..Len(s) |-> LowerChar(s[i])]

\* str.upper()
Upper(s) == [i \in 1..Len(s) |-> UpperChar(s[i])]

IsSpace(c) == c \in SpaceChars

IsDigit(c) == IsIn(c, DigitChars)

\* str.strip()
Strip(s) ==
  LET keep == {i \in 1..Len(s) : ~IsSpace(s[i])}
  IN  IF keep = {} THEN <<>>
      ELSE LET lo == CHOOSE i \in keep : \A j \in keep : i <= j
               hi == CHOOSE i \in keep : \A j \in keep : j <= i
           IN  SubSeq(s, lo, hi)

\* s occurs in t at position i
MatchAt(s, t, i) ==
  /\ i >= 1
  /\ i + Len(s) - 1 <= Len(t)
  /\ \A j \in 1..Len(s) : t[i + j - 1] = s[j]

\* `s in t`
Contains(s, t) == \E i \in 1..(Len(t) + 1) : MatchAt(s, t, i)

\* int() of a run of decimal digits
RECURSIVE DigitsToInt(_)
DigitsToInt(s) ==
  IF s = <<>> THEN 0
  ELSE 10 * DigitsToInt(SubSeq(s, 1, Len(s) - 1)) + (IndexIn(s[Len(s)], DigitChars) - 1)

\* n >= 0 written with at least w digits (format '%0wd')
RECURSIVE IntToDigits(_, _)
IntToDigits(n, w) ==
  IF n < 10 /\ w <= 1 THEN <<DigitChars[n + 1]>>
  ELSE Append(IntToDigits(n \div 10, w - 1), DigitChars[(n % 10) + 1])

(***************************************************************************)
(* datetime: the proleptic Gregorian calendar of Python's datetime module. *)
(* A date is its ordinal (1 = 0001-01-01); a datetime is a record          *)
(* [ord, sec, aware, off]: the day, the second of the day, and the UTC     *)
(* offset in minutes of an aware value.                                    *)
(***************************************************************************)
IsLeap(y) == (y % 4 = 0) /\ ((y % 100 # 0) \/ (y % 400 = 0))

DaysInMonth(y, m) ==
  IF m = 2 THEN (IF IsLeap(y) THEN 29 ELSE 28)
  ELSE IF m \in {4, 6, 9, 11} THEN 30 ELSE 31

RECURSIVE DaysBeforeMonth(_, _)
DaysBeforeMonth(y, m) ==
  IF m = 1 THEN 0 ELSE DaysBeforeMonth(y, m - 1) + DaysInMonth(y, m - 1)

DaysBeforeYear(y) ==
  (y - 1) * 365 + ((y - 1) \div 4) - ((y - 1) \div 100) + ((y - 1) \div 400)

\* date(y, m, d).toordinal()
YmdToOrd(y, m, d) == DaysBeforeYear(y) + DaysBeforeMonth(y, m) + d

\* date.max.toordinal()
MaxOrdinal == YmdToOrd(9999, 12, 31)

\* date.fromordinal(n), as [y, m, d]
OrdToYmd(n) ==
  LET n0   == n - 1
      n400 == n0 \div 146097
      r400 == n0 % 146097
      n100 == r400 \div 36524
      r100 == r400 % 36524
      n4   == r100 \div 1461
      r4   == r100 % 1461
      n1   == r4 \div 365
      r1   == r4 % 365
      year == n400 * 400 + 1 + n100 * 100 + n4 * 4 + n1
  IN  IF n1 = 4 \/ n100 = 4
      THEN [y |-> year - 1, m |-> 12, d |-> 31]
      ELSE LET mo == CHOOSE m \in 1..12 :
                       /\ DaysBeforeMonth(year, m) <= r1
                       /\ r1 < DaysBeforeMonth(year, m) + DaysInMonth(year, m)
           IN  [y |-> year, m |-> mo, d |-> r1 - DaysBeforeMonth(year, mo) + 1]

NoDate == [ord |-> 0, sec |-> 0, aware |-> FALSE, off |-> 0]

\* datetime.now().replace(hour=0, minute=0, second=0, microsecond=0)
Midnight(day) == [ord |-> day, sec |-> 0, aware |-> FALSE, off |-> 0]

\* datetime.isoformat() of a value without microseconds
IsoFormat(dt) ==
  LET ymd == OrdToYmd(dt.ord)
      abs == IF dt.off < 0 THEN 0 - dt.off ELSE dt.off
  IN  IntToDigits(ymd.y, 4) \o <<"-">> \o IntToDigits(ymd.m, 2) \o <<"-">>
        \o IntToDigits(ymd.d, 2) \o <<"T">>
        \o IntToDigits(dt.sec \div 3600, 2) \o <<":">>
        \o IntToDigits((dt.sec \div 60) % 60, 2) \o <<":">>
        \o IntToDigits(dt.sec % 60, 2)
        \o (IF dt.aware
            THEN <<(IF dt.off < 0 THEN "-" ELSE "+")>>
                   \o IntToDigits(abs \div 60, 2) \o <<":">> \o IntToDigits(abs % 60, 2)
            ELSE <<>>)

AllDigits(s) == \A i \in 1..Len(s) : IsDigit(s[i])

\* the calendar date written YYYY-MM-DD
IsIsoDate(s) ==
  /\ Len(s) = 10
  /\ s[5] = "-" /\ s[8] = "-"
  /\ AllDigits(SubSeq(s, 1, 4)) /\ AllDigits(SubSeq(s, 6, 7)) /\ AllDigits(SubSeq(s, 9, 10))
  /\ LET y == DigitsToInt(SubSeq(s, 1, 4))
         m == DigitsToInt(SubSeq(s, 6, 7))
         d == DigitsToInt(SubSeq(s, 9, 10))
     IN  y >= 1 /\ m \in 1..12 /\ d >= 1 /\ d <= DaysInMonth(y, m)

IsoDateOrd(s) ==
  YmdToOrd(DigitsToInt(SubSeq(s, 1, 4)), DigitsToInt(SubSeq(s, 6, 7)),
           DigitsToInt(SubSeq(s, 9, 10)))

\* the time of day written HH:MM:SS
IsIsoTime(s) ==
  /\ Len(s) = 8
  /\ s[3] = ":" /\ s[6] = ":"
  /\ AllDigits(SubSeq(s, 1, 2)) /\ AllDigits(SubSeq(s, 4, 5)) /\ AllDigits(SubSeq(s, 7, 8))
  /\ DigitsToInt(SubSeq(s, 1, 2)) <= 23
  /\ DigitsToInt(SubSeq(s, 4, 5)) <= 59
  /\ DigitsToInt(SubSeq(s, 7, 8)) <= 59

IsoTimeSec(s) ==
  DigitsToInt(SubSeq(s, 1, 2)) * 3600 + DigitsToInt(SubSeq(s, 4, 5)) * 60
    + DigitsToInt(SubSeq(s, 7, 8))

\* the UTC offset written +HH:MM or -HH:MM
IsIsoOffset(s) ==
  /\ Len(s) = 6
  /\ s[1] \in {"+", "-"}
  /\ s[4] = ":"
  /\ AllDigits(SubSeq(s, 2, 3)) /\ AllDigits(SubSeq(s, 5, 6))
  /\ DigitsToInt(SubSeq(s, 2, 3)) <= 23
  /\ DigitsToInt(SubSeq(s, 5, 6)) <= 59

IsoOffsetMin(s) ==
  LET m == DigitsToInt(SubSeq(s, 2, 3)) * 60 + DigitsToInt(SubSeq(s, 5, 6))
  IN  IF s[1] = "-" THEN 0 - m ELSE m

\* datetime.fromisoformat(s) on the forms YYYY-MM-DD, YYYY-MM-DD<T| >HH:MM:SS and
\* YYYY-MM-DD<T| >HH:MM:SS<+|->HH:MM; any other text is a ValueError (ok = FALSE).
FromIsoFormat(s) ==
  IF Len(s) = 10 /\ IsIsoDate(s)
  THEN [ok |-> TRUE, dt |-> Midnight(IsoDateOrd(s))]
  ELSE IF /\ Len(s) = 19
          /\ IsIsoDate(SubSeq(s, 1, 10))
          /\ s[11] \in {"T", " "}
          /\ IsIsoTime(SubSeq(s, 12, 19))
  THEN [ok |-> TRUE,
        dt |-> [ord |-> IsoDateOrd(SubSeq(s, 1, 10)), sec |-> IsoTimeSec(SubSeq(s, 12, 19)),
                aware |-> FALSE, off |-> 0]]
  ELSE IF /\ Len(s) = 25
          /\ IsIsoDate(SubSeq(s, 1, 10))
          /\ s[11] \in {"T", " "}
          /\ IsIsoTime(SubSeq(s, 12, 19))
          /\ IsIsoOffset(SubSeq(s, 20, 25))
  THEN [ok |-> TRUE,
        dt |-> [ord |-> IsoDateOrd(SubSeq(s, 1, 10)), sec |-> IsoTimeSec(SubSeq(s, 12, 19)),
                aware |-> TRUE, off |-> IsoOffsetMin(SubSeq(s, 20, 25))]]
  ELSE [ok |-> FALSE, dt |-> NoDate]

(***************************************************************************)
(* parse._parse_iso_date and parse._infer_due_date.                        *)
(***************************************************************************)
\* str.replace('Z', '+00:00')
RECURSIVE ReplaceZ(_)
ReplaceZ(s) ==
  IF s = <<>> THEN <<>>
  ELSE (IF Head(s) = "Z" THEN <<"+","0","0",":","0","0">> ELSE <<Head(s)>>)
         \o ReplaceZ(Tail(s))

\* str.split('T')[0]
BeforeFirstT(s) ==
  IF \E i \in 1..Len(s) : s[i] = "T"
  THEN SubSeq(s, 1, (CHOOSE i \in 1..Len(s) : s[i] = "T" /\ \A j \in 1..(i - 1) : s[j] # "T") - 1)
  ELSE s

\* _parse_iso_date(value) for a str value: [ok, dt], ok = FALSE for None
ParseIsoDate(value) ==
  IF value = <<>> THEN [ok |-> FALSE, dt |-> NoDate]
  ELSE LET normalized == ReplaceZ(value)
           first  == FromIsoFormat(normalized)
           second == FromIsoFormat(BeforeFirstT(normalized))
       IN  IF first.ok THEN first
           ELSE IF second.ok THEN second
           ELSE [ok |-> FALSE, dt |-> NoDate]

KwTomorrowZh   == <<"u660e", "u5929">>
KwTomorrow     == <<"t","o","m","o","r","r","o","w">>
KwDayAfterZh   == <<"u540e", "u5929">>
KwDaysLaterZh  == <<"u5929", "u540e">>
KwNextWeekZh   == <<"u4e0b", "u5468">>
KwNextWeek     == <<"n","e","x","t"," ","w","e","e","k">>

\* the last index of the longest run of characters of a class that starts at i
\* (i - 1 when the run is empty)
RunEnd(t, i, class) ==
  CHOOSE j \in (i - 1)..Len(t) :
    /\ \A k \in i..j : t[k] \in class
    /\ (j = Len(t) \/ t[j + 1] \notin class)

\* re.search(r'in\s+(\d+)\s+day', text, flags=re.IGNORECASE) matching at i
DayMatchAt(t, i) ==
  LET b == RunEnd(t, i + 2, SpaceChars)
      c == RunEnd(t, b + 1, DigitSet)
      d == RunEnd(t, c + 1, SpaceChars)
  IN  /\ MatchAt(<<"i","n">>, Lower(t), i)
      /\ b >= i + 2
      /\ c >= b + 1
      /\ d >= c + 1
      /\ MatchAt(<<"d","a","y">>, Lower(t), d + 1)

DayMatchGroup(t, i) ==
  LET b == RunEnd(t, i + 2, SpaceChars)
      c == RunEnd(t, b + 1, DigitSet)
  IN  SubSeq(t, b + 1, c)

\* re.search(r'(\d+)\s*天后', text) matching at i
ZhMatchAt(t, i) ==
  LET c == RunEnd(t, i, DigitSet)
      d == RunEnd(t, c + 1, SpaceChars)
  IN  /\ i <= Len(t)
      /\ c >= i
      /\ MatchAt(KwDaysLaterZh, t, d + 1)

ZhMatchGroup(t, i) == SubSeq(t, i, RunEnd(t, i, DigitSet))

\* re.search: the leftmost position at which the pattern matches
DayMatchStart(t) ==
  CHOOSE i \in 1..Len(t) : DayMatchAt(t, i) /\ \A j \in 1..(i - 1) : ~DayMatchAt(t, j)

ZhMatchStart(t) ==
  CHOOSE i \in 1..Len(t) : ZhMatchAt(t, i) /\ \A j \in 1..(i - 1) : ~ZhMatchAt(t, j)

\* the number of days _infer_due_date adds to today: [found, n], found = FALSE
\* when no pattern matches; the patterns are tried in the order of the code
InferOffset(text) ==
  IF Contains(KwTomorrowZh, text) \/ Contains(KwTomorrow, text)
  THEN [found |-> TRUE, n |-> 1]
  ELSE IF Contains(KwDayAfterZh, text)
  THEN [found |-> TRUE, n |-> 2]
  ELSE IF \E i \in 1..Len(text) : DayMatchAt(text, i)
  THEN [found |-> TRUE,
        n |-> DigitsToInt(DayMatchGroup(text, DayMatchStart(text)))]
  ELSE IF \E i \in 1..Len(text) : ZhMatchAt(text, i)
  THEN [found |-> TRUE,
        n |-> DigitsToInt(ZhMatchGroup(text, ZhMatchStart(text)))]
  ELSE IF Contains(KwNextWeekZh, text) \/ Contains(KwNextWeek, Lower(text))
  THEN [found |-> TRUE, n |-> 7]
  ELSE [found |-> FALSE, n |-> 0]

\* now + timedelta(days=n): OverflowError past date.max
PlusDays(today, n) ==
  IF today + n > MaxOrdinal
  THEN [k |-> "raise", dt |-> NoDate]
  ELSE [k |-> "date", dt |-> Midnight(today + n)]

\* _infer_due_date(text): [k, dt] with k = "date", "none" (None) or "raise"
InferDueDate(text, today) ==
  LET offset == InferOffset(text)
  IN  IF offset.found THEN PlusDays(today, offset.n)
      ELSE [k |-> "none", dt |-> NoDate]

(***************************************************************************)
(* JSON values as json.loads returns them.  A value is [t, s, n]:          *)
(*   t = "absent" (the key is missing), "null", "str" (s its characters),  *)
(*       "int" (n), "float" (n hundredths), "bool" (n = 1 for true),       *)
(*       "list" (n its length, s the text of its element when it is a list *)
(*       of one string) or "dict" (an object read through its keys).       *)
(***************************************************************************)
JAbsent    == [t |-> "absent", s |-> <<>>, n |-> 0]
JNull      == [t |-> "null", s |-> <<>>, n |-> 0]
JStr(chars) == [t |-> "str", s |-> chars, n |-> 0]
JInt(i)    == [t |-> "int", s |-> <<>>, n |-> i]
JFloat(h)  == [t |-> "float", s |-> <<>>, n |-> h]
JBool(b)   == [t |-> "bool", s |-> <<>>, n |-> IF b THEN 1 ELSE 0]
JList(len, text) == [t |-> "list", s |-> text, n |-> len]

\* bool(v): the truth value Python gives a value in `v or default` and `if not v`;
\* dict.get of a missing key is None
Truthy(v) ==
  CASE v.t \in {"absent", "null"} -> FALSE
    [] v.t = "str" -> v.s # <<>>
    [] OTHER -> v.n # 0

\* str(v)
PyStr(v) ==
  CASE v.t = "str" -> v.s
    [] v.t \in {"absent", "null"} -> <<"N","o","n","e">>
    [] v.t = "bool" -> IF v.n = 1 THEN <<"T","r","u","e">> ELSE <<"F","a","l","s","e">>
    [] v.t = "int" ->
         IF v.n < 0 THEN <<"-">> \o IntToDigits(0 - v.n, 1) ELSE IntToDigits(v.n, 1)
    [] v.t = "float" ->
         LET a    == IF v.n < 0 THEN 0 - v.n ELSE v.n
             frac == a % 100
         IN  (IF v.n < 0 THEN <<"-">> ELSE <<>>) \o IntToDigits(a \div 100, 1) \o <<".">>
               \o (IF frac % 10 = 0 THEN IntToDigits(frac \div 10, 1) ELSE IntToDigits(frac, 2))
    [] v.t = "list" ->
         IF v.n = 0 THEN <<"[","]">> ELSE <<"[","'">> \o v.s \o <<"'","]">>
    [] OTHER -> <<"{","}">>

\* a decimal literal [sign] digits [. one or two digits]
IsDecimal(s) ==
  LET body == IF s # <<>> /\ s[1] \in {"+", "-"} THEN Tail(s) ELSE s
      ip   == RunEnd(body, 1, DigitSet)
  IN  /\ ip >= 1
      /\ \/ ip = Len(body)
         \/ /\ body[ip + 1] = "."
            /\ Len(body) - ip - 1 \in {1, 2}
            /\ AllDigits(SubSeq(body, ip + 2, Len(body)))

DecimalHundredths(s) ==
  LET neg  == s[1] = "-"
      body == IF s[1] \in {"+", "-"} THEN Tail(s) ELSE s
      ip   == RunEnd(body, 1, DigitSet)
      fr   == IF ip = Len(body) THEN <<>> ELSE SubSeq(body, ip + 2, Len(body))
      h    == DigitsToInt(SubSeq(body, 1, ip)) * 100
                + (IF Len(fr) = 1 THEN 10 * DigitsToInt(fr) ELSE DigitsToInt(fr))
  IN  IF neg THEN 0 - h ELSE h

\* float(v): [ok, h]; ok = FALSE stands for TypeError or ValueError.  A str is
\* stripped and read as a decimal literal; other spellings float() accepts
\* (exponents, nan, inf, underscores) are outside the documents of the model.
PyFloat(v) ==
  CASE v.t = "float" -> [ok |-> TRUE, h |-> v.n]
    [] v.t \in {"int", "bool"} -> [ok |-> TRUE, h |-> v.n * 100]
    [] v.t = "str" ->
         IF IsDecimal(Strip(v.s))
         THEN [ok |-> TRUE, h |-> DecimalHundredths(Strip(v.s))]
         ELSE [ok |-> FALSE, h |-> 0]
    [] OTHER -> [ok |-> FALSE, h |-> 0]

(***************************************************************************)
(* The documents the handlers read.  A details value is [v, f, more]: v is *)
(* the JSON value when it is not an object (t = "dict" when it is), f the  *)
(* keys the handler reads, more the number of other keys of the object.    *)
(* A document is [v, intent, logDetails, expenseDetails, memoDetails].     *)
(***************************************************************************)
DictTag == [t |-> "dict", s |-> <<>>, n |-> 0]

NoLogFields  == [type |-> JAbsent, value |-> JAbsent, notes |-> JAbsent]
NoExpFields  == [amount |-> JAbsent, category |-> JAbsent]
NoMemoFields == [title |-> JAbsent, notes |-> JAbsent, description |-> JAbsent,
                 dueDate |-> JAbsent, source |-> JAbsent]

LogObj(type, value, notes) ==
  [v |-> DictTag, f |-> [type |-> type, value |-> value, notes |-> notes], more |-> 0]

ExpObj(amount, category) ==
  [v |-> DictTag, f |-> [amount |-> amount, category |-> category], more |-> 0]

MemoObj(title, notes, description, dueDate) ==
  [v |-> DictTag,
   f |-> [title |-> title, notes |-> notes, description |-> description,
          dueDate |-> dueDate, source |-> JAbsent],
   more |-> 0]

\* a details key holding a JSON value that is not an object (or no key at all)
LogVal(v)  == [v |-> v, f |-> NoLogFields, more |-> 0]
ExpVal(v)  == [v |-> v, f |-> NoExpFields, more |-> 0]
MemoVal(v) == [v |-> v, f |-> NoMemoFields, more |-> 0]

\* the fresh {} of `raw.get(key) or {}`
EmptyLog  == LogObj(JAbsent, JAbsent, JAbsent)
EmptyExp  == ExpObj(JAbsent, JAbsent)
EmptyMemo == MemoObj(JAbsent, JAbsent, JAbsent, JAbsent)

IsDict(d) == d.v.t = "dict"

\* len(d) of an object
KeyCount(d) == d.more + Cardinality({key \in DOMAIN d.f : d.f[key].t # "absent"})

\* bool(d) of a details value: an empty object is falsy
DetTruthy(d) == IF IsDict(d) THEN KeyCount(d) > 0 ELSE Truthy(d.v)

Doc(intent, log, exp, memo) ==
  [v |-> DictTag, intent |-> intent, logDetails |-> log, expenseDetails |-> exp,
   memoDetails |-> memo]

\* a top-level JSON value that is not an object
TopVal(v) ==
  [v |-> v, intent |-> JAbsent, logDetails |-> LogVal(JAbsent),
   expenseDetails |-> ExpVal(JAbsent), memoDetails |-> MemoVal(JAbsent)]

NoDoc == TopVal(JAbsent)

(***************************************************************************)
(* schemas.LogType and the keyword table of parse.                         *)
(***************************************************************************)
TFeeding == <<"F","e","e","d","i","n","g">>
TDrinking == <<"D","r","i","n","k","i","n","g">>
TActivity == <<"A","c","t","i","v","i","t","y">>
TSleep == <<"S","l","e","e","p">>
TBathroom == <<"B","a","t","h","r","o","o","m">>
TMedical == <<"M","e","d","i","c","a","l">>
TNote == <<"N","o","t","e">>

LogType == {TFeeding, TDrinking, TActivity, TSleep, TBathroom, TMedical, TNote}

keyword_map == <<
    [kw |-> <<"s","l","e","e","p">>, type |-> TSleep],
    [kw |-> <<"n","a","p">>, type |-> TSleep],
    [kw |-> <<"u7761">>, type |-> TSleep],
    [kw |-> <<"u56f0">>, type |-> TSleep],
    [kw |-> <<"f","e","e","d">>, type |-> TFeeding],
    [kw |-> <<"u5582">>, type |-> TFeeding],
    [kw |-> <<"u5403">>, type |-> TFeeding],
    [kw |-> <<"u732b","u7cae">>, type |-> TFeeding],
    [kw |-> <<"u72d7","u7cae">>, type |-> TFeeding],
    [kw |-> <<"d","r","i","n","k">>, type |-> TDrinking],
    [kw |-> <<"u559d">>, type |-> TDrinking],
    [kw |-> <<"w","a","t","e","r">>, type |-> TDrinking],
    [kw |-> <<"w","a","l","k">>, type |-> TActivity],
    [kw |-> <<"r","u","n">>, type |-> TActivity],
    [kw |-> <<"u73a9">>, type |-> TActivity],
    [kw |-> <<"u8fd0","u52a8">>, type |-> TActivity],
    [kw |-> <<"u6563","u6b65">>, type |-> TActivity],
    [kw |-> <<"t","o","i","l","e","t">>, type |-> TBathroom],
    [kw |-> <<"b","a","t","h","r","o","o","m">>, type |-> TBathroom],
    [kw |-> <<"u5c3f">>, type |-> TBathroom],
    [kw |-> <<"u4fbf">>, type |-> TBathroom],
    [kw |-> <<"u6392","u6cc4">>, type |-> TBathroom],
    [kw |-> <<"m","e","d">>, type |-> TMedical],
    [kw |-> <<"u836f">>, type |-> TMedical],
    [kw |-> <<"u6253","u9489">>, type |-> TMedical],
    [kw |-> <<"u533b","u9662">>, type |-> TMedical]
  >>

(***************************************************************************)
(* The model's reply: a sequence of tokens [k, d, a].  k = "fence_json"    *)
(* (```json), "fence" (```), "ws" (white space), "text" (text that is not  *)
(* JSON) or "json" (the text of one JSON value: d when it answers /parse,  *)
(* a when it answers /analyze).                                            *)
(***************************************************************************)
NoADoc == [v |-> JAbsent, summary |-> JAbsent, risks |-> JAbsent, suggestions |-> JAbsent]

ADoc(summary, risks, suggestions) ==
  [v |-> DictTag, summary |-> summary, risks |-> risks, suggestions |-> suggestions]

ATopVal(v) == [v |-> v, summary |-> JAbsent, risks |-> JAbsent, suggestions |-> JAbsent]

Tok(kind) == [k |-> kind, d |-> NoDoc, a |-> NoADoc]

JsonTok(doc) == [k |-> "json", d |-> doc, a |-> NoADoc]

AJsonTok(adoc) == [k |-> "json", d |-> NoDoc, a |-> adoc]

\* str.replace(marker, '') for the two fence markers
RECURSIVE RemoveFences(_)
RemoveFences(text) ==
  IF text = <<>> THEN <<>>
  ELSE (IF Head(text).k \in {"fence_json", "fence"} THEN <<>> ELSE <<Head(text)>>)
         \o RemoveFences(Tail(text))

\* str.strip() of a reply
StripTokens(text) ==
  LET keep == {i \in 1..Len(text) : text[i].k # "ws"}
  IN  IF keep = {} THEN <<>>
      ELSE LET lo == CHOOSE i \in keep : \A j \in keep : i <= j
               hi == CHOOSE i \in keep : \A j \in keep : j <= i
           IN  SubSeq(text, lo, hi)

\* mutant: only the ```json marker is removed, a closing ``` stays in the text
RECURSIVE RemoveJsonFences(_)
RemoveJsonFences(text) ==
  IF text = <<>> THEN <<>>
  ELSE (IF Head(text).k = "fence_json" THEN <<>> ELSE <<Head(text)>>)
         \o RemoveJsonFences(Tail(text))

clean_json_string_OneMarker(text) == StripTokens(RemoveJsonFences(text))

\* clean_json_string(text)
clean_json_string(text) == StripTokens(RemoveFences(text))

\* json.loads(text): [ok, tok]; ok = FALSE stands for json.JSONDecodeError.  The
\* text is JSON when it is one JSON value with nothing but white space around it.
JsonLoads(text) ==
  LET body == StripTokens(text)
  IN  IF Len(body) = 1 /\ body[1].k = "json"
      THEN [ok |-> TRUE, tok |-> body[1]]
      ELSE [ok |-> FALSE, tok |-> Tok("text")]

(***************************************************************************)
(* POST /gemini/parse.  A result is [status, exc, body, analysis, text]:   *)
(* status = "ok" with the returned body, or "raise" with the exception     *)
(* that leaves the handler.                                                *)
(***************************************************************************)
NoAnalysis == [summary |-> JAbsent, risks |-> JAbsent, suggestions |-> JAbsent]

NoResult == [status |-> "none", exc |-> "", body |-> NoDoc, analysis |-> NoAnalysis,
             text |-> <<>>]

Raise(exception) ==
  [status |-> "raise", exc |-> exception, body |-> NoDoc, analysis |-> NoAnalysis,
   text |-> <<>>]

Return(doc) ==
  [status |-> "ok", exc |-> "", body |-> doc, analysis |-> NoAnalysis, text |-> <<>>]

UNKNOWN == <<"U","N","K","N","O","W","N">>
LOG     == <<"L","O","G">>
EXPENSE == <<"E","X","P","E","N","S","E">>
MEMO    == <<"M","E","M","O">>

\* the literal {'intent': 'UNKNOWN'}
OnlyUnknown ==
  Doc(JStr(UNKNOWN), LogVal(JAbsent), ExpVal(JAbsent), MemoVal(JAbsent))

\* the keyword loop: the index of the first entry of keyword_map, in table order,
\* whose keyword occurs in the text (0 when none does)
FirstKeyword(text_lower) ==
  LET hits == {i \in 1..Len(keyword_map) : Contains(keyword_map[i].kw, text_lower)}
  IN  IF hits = {} THEN 0 ELSE CHOOSE i \in hits : \A j \in hits : i <= j

\* the type the LOG branch leaves in details
LogTypeOf(type, input) ==
  IF Truthy(type) THEN type
  ELSE LET i == FirstKeyword(Lower(input))
       IN  IF i # 0 THEN JStr(keyword_map[i].type)
           ELSE IF type.t = "absent" THEN JStr(TNote)
           ELSE type

\* mutant: repr(value) in place of str(value): a text value comes out quoted
LogValueOf_Repr(value, input) ==
  IF value.t = "str" THEN JStr(<<"'">> \o value.s \o <<"'">>)
  ELSE IF value.t # "absent" THEN JStr(PyStr(value))
  ELSE JStr(input)

\* mutant: the default value is the trimmed raw input
LogValueOf_Trimmed(value, input) ==
  IF value.t # "absent" THEN JStr(PyStr(value)) ELSE JStr(Strip(input))

\* the value the LOG branch leaves in details
LogValueOf(value, input) ==
  IF value.t # "absent" THEN JStr(PyStr(value)) ELSE JStr(input)

\* the notes the LOG branch leaves in details
LogNotesOf(notes) ==
  IF notes.t \notin {"absent", "null"} THEN JStr(PyStr(notes)) ELSE notes

\* the branch intent == 'LOG'
ParseLog(raw, intent, input) ==
  LET details == IF DetTruthy(raw.logDetails) THEN raw.logDetails ELSE EmptyLog
  IN  IF ~IsDict(details) THEN Raise("AttributeError")
      ELSE Return([raw EXCEPT
             !.intent = JStr(intent),
             !.logDetails =
               [details EXCEPT !.f = [type  |-> LogTypeOf(details.f.type, input),
                                      value |-> LogValueOf(details.f.value, input),
                                      notes |-> LogNotesOf(details.f.notes)]]])

\* the amount the EXPENSE branch leaves in expense
ExpenseAmountOf(amount) ==
  IF amount.t \notin {"absent", "null"}
  THEN (IF PyFloat(amount).ok THEN JFloat(PyFloat(amount).h) ELSE JFloat(0))
  ELSE amount

Other == <<"O","t","h","e","r">>

\* expense.setdefault('category', 'Other')
ExpenseCategoryOf(category) ==
  IF category.t = "absent" THEN JStr(Other) ELSE category

\* the branch intent == 'EXPENSE'
ParseExpense(raw, intent) ==
  LET expense == IF DetTruthy(raw.expenseDetails) THEN raw.expenseDetails ELSE EmptyExp
  IN  IF ~IsDict(expense)
      THEN (IF expense.v.t \in {"int", "float", "bool"}
            THEN Raise("TypeError") ELSE Raise("AttributeError"))
      ELSE Return([raw EXCEPT
             !.intent = JStr(intent),
             !.expenseDetails =
               [expense EXCEPT !.f = [amount   |-> ExpenseAmountOf(expense.f.amount),
                                      category |-> ExpenseCategoryOf(expense.f.category)]]])

\* mutant: the date inferred from the raw input is tried before the explicit dueDate
MemoDueOf_InferFirst(memo, input, today) ==
  LET due_raw  == IF IsDict(memo) THEN memo.f.dueDate ELSE JNull
      explicit == IF due_raw.t = "str" THEN ParseIsoDate(due_raw.s)
                  ELSE [ok |-> FALSE, dt |-> NoDate]
      inferred == InferDueDate(input, today)
  IN  IF inferred.k # "none" THEN inferred
      ELSE IF explicit.ok THEN [k |-> "date", dt |-> explicit.dt]
      ELSE inferred

\* the dueDate of the MEMO branch: [k, dt] with k = "date", "none" or "raise"
MemoDueOf(memo, input, today) ==
  LET due_raw  == IF IsDict(memo) THEN memo.f.dueDate ELSE JNull
      explicit == IF due_raw.t = "str" THEN ParseIsoDate(due_raw.s)
                  ELSE [ok |-> FALSE, dt |-> NoDate]
  IN  IF explicit.ok THEN [k |-> "date", dt |-> explicit.dt]
      ELSE InferDueDate(input, today)

\* str(memo.get('title') or payload.input).strip()
MemoTitleOf(title, input) ==
  Strip(PyStr(IF Truthy(title) THEN title ELSE JStr(input)))

\* str(memo.get('notes') or memo.get('description') or '').strip() or payload.input.strip()
MemoNotesOf(notes, description, input) ==
  LET first == IF Truthy(notes) THEN notes
               ELSE IF Truthy(description) THEN description
               ELSE JStr(<<>>)
      text  == Strip(PyStr(first))
  IN  IF text # <<>> THEN text ELSE Strip(input)

SourceAi == <<"a","i">>

\* the branch intent == 'MEMO' or (intent == 'UNKNOWN' and _infer_due_date(input))
ParseMemo(raw, input, today) ==
  LET memo == IF DetTruthy(raw.memoDetails) THEN raw.memoDetails ELSE EmptyMemo
      due  == MemoDueOf(memo, input, today)
  IN  IF due.k = "raise" THEN Raise("OverflowError")
      ELSE IF ~IsDict(memo) THEN Raise("AttributeError")
      ELSE Return([raw EXCEPT
             !.intent = JStr(MEMO),
             !.memoDetails =
               [v |-> DictTag,
                f |-> [title       |-> JStr(MemoTitleOf(memo.f.title, input)),
                       notes       |-> JStr(MemoNotesOf(memo.f.notes, memo.f.description,
                                                        input)),
                       description |-> JAbsent,
                       dueDate     |-> IF due.k = "date" THEN JStr(IsoFormat(due.dt))
                                       ELSE JNull,
                       source      |-> JStr(SourceAi)],
                more |-> 0]])

\* (raw.get('intent') or 'UNKNOWN')
IntentOrDefault(value) == IF Truthy(value) THEN value ELSE JStr(UNKNOWN)

\* the branches of parse on the upper-cased intent
ParseBranches(raw, intent, input, today) ==
  IF intent = LOG THEN ParseLog(raw, intent, input)
  ELSE IF intent = EXPENSE THEN ParseExpense(raw, intent)
  ELSE IF intent = MEMO THEN ParseMemo(raw, input, today)
  ELSE IF intent = UNKNOWN /\ InferDueDate(input, today).k = "raise"
  THEN Raise("OverflowError")
  ELSE IF intent = UNKNOWN /\ InferDueDate(input, today).k = "date"
  THEN ParseMemo(raw, input, today)
  ELSE Return([raw EXCEPT !.intent = JStr(intent)])

\* mutant: the declared intent is compared without upper-casing it
parse_NoUpper(input, text, today) ==
  IF text = <<>> THEN Return(OnlyUnknown)
  ELSE LET loaded == JsonLoads(clean_json_string(text))
           raw    == loaded.tok.d
           value  == IntentOrDefault(raw.intent)
       IN  IF ~loaded.ok THEN Return(OnlyUnknown)
           ELSE IF raw.v.t # "dict" THEN Raise("AttributeError")
           ELSE IF value.t # "str" THEN Raise("AttributeError")
           ELSE ParseBranches(raw, value.s, input, today)

\* mutant: an empty reply is handled like an empty document, so the date
\* inference runs on the raw input
parse_InferOnEmpty(input, text, today) ==
  LET loaded == JsonLoads(clean_json_string(text))
      raw    == IF text = <<>>
                THEN Doc(JAbsent, LogVal(JAbsent), ExpVal(JAbsent), MemoVal(JAbsent))
                ELSE loaded.tok.d
      value  == IntentOrDefault(raw.intent)
  IN  IF text # <<>> /\ ~loaded.ok THEN Return(OnlyUnknown)
      ELSE IF raw.v.t # "dict" THEN Raise("AttributeError")
      ELSE IF value.t # "str" THEN Raise("AttributeError")
      ELSE ParseBranches(raw, Upper(value.s), input, today)

\* parse(payload) from the model's reply on
parse(input, text, today) ==
  IF text = <<>> THEN Return(OnlyUnknown)
  ELSE LET loaded == JsonLoads(clean_json_string(text))
           raw    == loaded.tok.d
           value  == IntentOrDefault(raw.intent)
       IN  IF ~loaded.ok THEN Return(OnlyUnknown)
           ELSE IF raw.v.t # "dict" THEN Raise("AttributeError")
           ELSE IF value.t # "str" THEN Raise("AttributeError")
           ELSE ParseBranches(raw, Upper(value.s), input, today)

(***************************************************************************)
(* POST /gemini/analyze and POST /gemini/chat.                             *)
(***************************************************************************)
NoSummary == <<"N","o"," ","s","u","m","m","a","r","y"," ","a","v","a","i","l","a","b","l","e",".">>

\* mutant: a bare string is dropped like any other value that is no list
AsList_ListsOnly(value) ==
  IF value.t = "list" THEN value ELSE JList(0, <<>>)

\* risks / suggestions of the response
AsList(value) ==
  IF value.t = "str" THEN JList(1, value.s)
  ELSE IF value.t = "list" THEN value
  ELSE JList(0, <<>>)

\* mutant: an empty or unparseable reply degrades to the default response
analyze_Defaults(text) ==
  LET loaded == JsonLoads(clean_json_string(text))
      data   == IF text # <<>> /\ loaded.ok THEN loaded.tok.a ELSE NoADoc
      isdict == data.v.t = "dict"
      summary == IF isdict THEN data.summary ELSE JStr(<<>>)
  IN  [status |-> "ok", exc |-> "", body |-> NoDoc, text |-> <<>>,
       analysis |->
         [summary |-> IF Truthy(summary) THEN summary ELSE JStr(NoSummary),
          risks |-> AsList(IF isdict THEN data.risks ELSE JList(0, <<>>)),
          suggestions |-> AsList(IF isdict THEN data.suggestions ELSE JList(0, <<>>))]]

\* analyze(payload) from the model's reply on (lastUpdated, the clock's reading,
\* is left out of the response)
analyze(text) ==
  IF text = <<>> THEN Raise("HTTPException")
  ELSE LET loaded == JsonLoads(clean_json_string(text))
           data   == loaded.tok.a
           isdict == data.v.t = "dict"
           summary == IF isdict THEN data.summary ELSE JStr(<<>>)
       IN  IF ~loaded.ok THEN Raise("HTTPException")
           ELSE [status |-> "ok", exc |-> "", body |-> NoDoc, text |-> <<>>,
                 analysis |->
                   [summary |-> IF Truthy(summary) THEN summary ELSE JStr(NoSummary),
                    risks |-> AsList(IF isdict THEN data.risks ELSE JList(0, <<>>)),
                    suggestions |->
                      AsList(IF isdict THEN data.suggestions ELSE JList(0, <<>>))]]

\* chat(payload) from the model's reply on
chat(text) ==
  [status |-> "ok", exc |-> "", body |-> NoDoc, analysis |-> NoAnalysis, text |-> text]

(***************************************************************************)
(* The requests of the model: raw inputs, the day the request is served,   *)
(* and the replies the generative model may give.                          *)
(***************************************************************************)
\* the words a raw input is made of
Vocabulary == {
  <<" ">>,
  <<"N","a","p">>,
  <<"t","o","m","o","r","r","o","w">>,
  <<"i","n"," ","9","9","9","9","9","9","9"," ","d","a","y","s">>,
  <<"x">> }

RECURSIVE WordSeqs(_)
WordSeqs(n) ==
  IF n = 0 THEN {<<>>}
  ELSE WordSeqs(n - 1) \cup {w \o t : w \in Vocabulary, t \in WordSeqs(n - 1)}

Inputs == WordSeqs(MaxWords)

Todays == {YmdToOrd(2026, 11, 2)}

SLog     == <<"l","o","g">>
SExpense == <<"E","x","p","e","n","s","e">>
SMemo    == <<"m","e","m","o">>
SUnknown == <<"u","n","k","n","o","w","n">>
SFoo     == <<"f","o","o">>
SEating  == <<"E","a","t","i","n","g">>
SAte     == <<"A","t","e"," ","2">>
SFood    == <<"F","o","o","d">>
SVet     == <<" ","V","e","t"," ">>
SNote    == <<"n"," ">>
SDesc    == <<"d">>
SAmount  == <<"1","2",".","5","0">>
SAbc     == <<"a","b","c">>
SDate    == <<"2","0","2","5","-","1","2","-","0","1">>
SDateZ   == <<"2","0","2","5","-","1","2","-","0","1","T","1","0",":","0","0",":","0","0","Z">>
SDateBad == <<"2","0","2","5","-","1","2","-","0","1","T","s","o","o","n">>
SSoon    == <<"s","o","o","n">>

\* values of the intent key
Intents ==
  {JAbsent, JNull, JStr(<<>>), JStr(LOG), JStr(SLog), JStr(EXPENSE), JStr(SExpense),
   JStr(MEMO), JStr(SMemo), JStr(UNKNOWN), JStr(SUnknown), JStr(SFoo),
   JInt(0), JInt(5), JList(1, SFoo)}

\* values of a details key that are not objects
NonObjects == {JAbsent, JNull, JStr(SAbc), JList(0, <<>>), JInt(5)}

LogObjects ==
  {LogObj(t, v, n) :
     t \in {JAbsent, JNull, JStr(<<>>), JStr(TSleep), JStr(SEating)},
     v \in {JAbsent, JNull, JStr(<<>>), JStr(SAte), JInt(5)},
     n \in {JAbsent, JNull, JInt(7)}}

ExpObjects ==
  {ExpObj(a, c) :
     a \in {JAbsent, JNull, JStr(SAmount), JStr(SAbc), JStr(<<>>), JFloat(1250), JInt(0),
            JInt(-5), JBool(TRUE), JList(1, SAbc)},
     c \in {JAbsent, JNull, JStr(<<>>), JStr(SFood)}}

MemoObjects ==
  {MemoObj(t, n, d, due) :
     t \in {JAbsent, JStr(<<>>), JStr(SVet)},
     n \in {JAbsent, JStr(<<" ">>), JStr(SNote)},
     d \in {JAbsent, JStr(SDesc)},
     due \in {JAbsent, JNull, JStr(SDate), JStr(SDateZ), JStr(SDateBad), JStr(SSoon)}}

SampleLog  == LogObj(JStr(TSleep), JStr(SAte), JAbsent)
SampleExp  == ExpObj(JInt(5), JStr(SFood))
SampleMemo == MemoObj(JStr(SVet), JAbsent, JAbsent, JStr(SDate))

\* documents with any intent, each details key missing or holding a sample
MixedDocs ==
  {Doc(i, l, e, m) :
     i \in Intents, l \in {LogVal(JAbsent), SampleLog}, e \in {ExpVal(JAbsent), SampleExp},
     m \in {MemoVal(JAbsent), SampleMemo}}

LogDocs ==
  {Doc(i, l, ExpVal(JAbsent), MemoVal(JAbsent)) :
     i \in {JStr(SLog)},
     l \in LogObjects \cup {LogVal(v) : v \in NonObjects}}

ExpenseDocs ==
  {Doc(i, LogVal(JAbsent), e, MemoVal(JAbsent)) :
     i \in {JStr(EXPENSE)},
     e \in ExpObjects \cup {ExpVal(v) : v \in NonObjects}}

MemoDocs ==
  {Doc(i, LogVal(JAbsent), ExpVal(JAbsent), m) :
     i \in {JStr(MEMO), JAbsent},
     m \in MemoObjects \cup {MemoVal(v) : v \in NonObjects}}

\* JSON texts that are not objects
TopVals == {TopVal(v) : v \in {JNull, JStr(SAbc), JInt(5), JList(0, <<>>), JList(1, SAbc)}}

Docs == MixedDocs \cup LogDocs \cup ExpenseDocs \cup MemoDocs \cup TopVals

Fenced(tok) == <<Tok("fence_json"), Tok("ws"), tok, Tok("ws"), Tok("fence")>>

\* replies without a JSON value, or with more than one
BrokenReplies(tok) ==
  {<<Tok("text")>>, <<Tok("ws")>>, <<Tok("fence")>>, <<Tok("text"), tok>>, <<tok, tok>>,
   <<Tok("fence_json"), Tok("text"), Tok("fence")>>, <<tok, Tok("fence"), Tok("text")>>}

ParseReplies ==
  {<<>>} \cup {<<JsonTok(d)>> : d \in Docs}
    \cup {Fenced(JsonTok(d)) : d \in MixedDocs}
    \cup {<<Tok("ws"), JsonTok(d), Tok("ws")>> : d \in TopVals}
    \cup BrokenReplies(JsonTok(Doc(JStr(LOG), SampleLog, ExpVal(JAbsent), MemoVal(JAbsent))))

SObesity == <<"o","b","e","s","i","t","y">>
SFine    == <<"f","i","n","e">>

ADocs ==
  {ADoc(s, r, g) :
     s \in {JAbsent, JNull, JStr(<<>>), JStr(SFine), JInt(5)},
     r \in {JAbsent, JNull, JStr(SObesity), JStr(<<>>), JList(0, <<>>), JList(2, <<>>),
            JInt(5), DictTag},
     g \in {JAbsent, JStr(SFine), JList(1, SFine)}}
    \cup {ATopVal(v) : v \in {JNull, JStr(SAbc), JInt(5), JList(1, SAbc)}}

AnalyzeReplies ==
  {<<>>} \cup {<<AJsonTok(a)>> : a \in ADocs} \cup {Fenced(AJsonTok(a)) : a \in ADocs}
    \cup BrokenReplies(AJsonTok(ADoc(JStr(SFine), JAbsent, JAbsent)))

ChatReplies ==
  {<<>>, <<Tok("text")>>, <<Tok("text"), Tok("ws"), Tok("text")>>,
   <<Tok("fence"), Tok("text"), Tok("fence")>>, <<Tok("ws")>>}

(***************************************************************************)
(* The accounts (routers/auth.py): the tables users and verification_codes *)
(* of init_db.py, the clock, and the requests to /auth/register that are   *)
(* being served, each in a database session of its own.                    *)
(***************************************************************************)
MaxSessions == 2

MaxCodes == 2

\* the clock is read in minutes and moves in steps of TickMinutes up to MaxNow
TickMinutes == 10

MaxNow == 10

\* timedelta(minutes=10)
CodeMinutes == 10

Emails == {"a@x.io", "b@x.io"}

\* the codes send-code draws
CodeValues == {"111111"}

\* auth.code of a register request: a code that was sent, or one that never was
RequestCodes == CodeValues \cup {"000000"}

\* the transaction isolation a session may run under (REPEATABLE READ is the
\* default of the MySQL server)
Isolations == {"REPEATABLE READ", "READ COMMITTED"}

VARIABLES
  users,               \* the rows of table users in id order: the email of each
  verification_codes,  \* the rows of verification_codes in id order:
                       \* [email, code, expires_at, is_used]
  now,                 \* datetime.utcnow(), in minutes
  session,             \* the bag of register requests being served, at most
                       \* MaxSessions at a time, each in a worker thread
  registered           \* history: the registrations that returned 200, as
                       \* [email, record], record = id of the code row used

authVars == <<users, verification_codes, now, session, registered>>

\* a register request as its session opens: pc is its position in the handler,
\* isolation the isolation level of its transaction, seen the code rows of its
\* snapshot, record the code row it found, exc what it raised
NewSession(email, code, level) ==
  [pc |-> "query_user", email |-> email, code |-> code, isolation |-> level,
   seen |-> {}, record |-> 0, exc |-> ""]

AuthInit ==
  /\ users = <<>>
  /\ verification_codes = <<>>
  /\ now = 0
  /\ session = EmptyBag
  /\ registered = <<>>

(***************************************************************************)
(* The service: one request at a time (requests share no state).           *)
(***************************************************************************)
VARIABLES
  configured,  \* gemini_model is not None (GEMINI_API_KEY was set at start-up)
  pc,          \* "idle", "calling" (inside generate_content), "replied", "done"
  endpoint,    \* "parse", "analyze" or "chat"
  input,       \* payload.input
  today,       \* the local calendar day of the request
  reply,       \* response.text
  result       \* what the handler returned or raised

vars == <<configured, pc, endpoint, input, today, reply, result>>

Init ==
  /\ configured \in BOOLEAN
  /\ pc = "idle"
  /\ endpoint = "none"
  /\ input = <<>>
  /\ today \in Todays
  /\ reply = <<>>
  /\ result = NoResult
  /\ AuthInit

\* ensure_model() and the call of generate_content
Request(e, inp, day) ==
  /\ pc = "idle"
  /\ endpoint' = e
  /\ input' = inp
  /\ today' = day
  /\ reply' = <<>>
  /\ IF configured
     THEN pc' = "calling" /\ result' = NoResult
     ELSE pc' = "done" /\ result' = Raise("HTTPException")
  /\ UNCHANGED configured
  /\ UNCHANGED authVars

ParseRequest(inp, day) == Request("parse", inp, day)

AnalyzeRequest(day) == Request("analyze", <<>>, day)

ChatRequest(day) == Request("chat", <<>>, day)

\* generate_content returns; text is response.text
Generate(text) ==
  /\ pc = "calling"
  /\ pc' = "replied"
  /\ reply' = text
  /\ UNCHANGED <<configured, endpoint, input, today, result>>
  /\ UNCHANGED authVars

ParseReturn ==
  /\ pc = "replied" /\ endpoint = "parse"
  /\ pc' = "done"
  /\ result' = parse(input, reply, today)
  /\ UNCHANGED <<configured, endpoint, input, today, reply>>
  /\ UNCHANGED authVars

AnalyzeReturn ==
  /\ pc = "replied" /\ endpoint = "analyze"
  /\ pc' = "done"
  /\ result' = analyze(reply)
  /\ UNCHANGED <<configured, endpoint, input, today, reply>>
  /\ UNCHANGED authVars

ChatReturn ==
  /\ pc = "replied" /\ endpoint = "chat"
  /\ pc' = "done"
  /\ result' = chat(reply)
  /\ UNCHANGED <<configured, endpoint, input, today, reply>>
  /\ UNCHANGED authVars

\* the response is sent; nothing of the request is kept
Respond ==
  /\ pc = "done"
  /\ pc' = "idle"
  /\ endpoint' = "none"
  /\ input' = <<>>
  /\ reply' = <<>>
  /\ result' = NoResult
  /\ UNCHANGED <<configured, today>>
  /\ UNCHANGED authVars

RepliesTo(e) ==
  CASE e = "parse" -> ParseReplies
    [] e = "analyze" -> AnalyzeReplies
    [] OTHER -> ChatReplies

Next ==
  \/ \E inp \in Inputs, day \in Todays : ParseRequest(inp, day)
  \/ \E day \in Todays : AnalyzeRequest(day)
  \/ \E day \in Todays : ChatRequest(day)
  \/ \E text \in RepliesTo(endpoint) : Generate(text)
  \/ ParseReturn
  \/ AnalyzeReturn
  \/ ChatReturn
  \/ Respond

Spec == Init /\ [][Next]_vars

(***************************************************************************)
(* Vocabulary of the properties.                                           *)
(***************************************************************************)
ParseDone == pc = "done" /\ endpoint = "parse" /\ configured

ParseReturned == ParseDone /\ result.status = "ok"

IsMarkup(tok) == tok.k \in {"fence_json", "fence", "ws"}

IsContent(tok) == ~IsMarkup(tok)

\* what is left of the reply without code-fence markers and white space
Content == SelectSeq(reply, IsContent)

\* the reply is the text of one JSON value, possibly fenced
IsJson == Len(Content) = 1 /\ Content[1].k = "json"

\* the model's document: the reply is a JSON object
HasDoc == IsJson /\ Content[1].d.v.t = "dict"

ModelDoc == Content[1].d

KnownIntents == {LOG, EXPENSE, MEMO, UNKNOWN}

\* the date _infer_due_date finds in the raw input
Inferred == InferDueDate(input, today)

\* the relative date phrase recognised in the raw input, and its offset in days
Phrase == InferOffset(input)

(***************************************************************************)
(* C1: every result /parse returns has an intent that is one of LOG,       *)
(* EXPENSE, MEMO, UNKNOWN; an intent of the model outside these four is    *)
(* treated as absent and never reaches the output.                         *)
(***************************************************************************)
C1_IntentIsKnown ==
  ParseReturned => result.body.intent.t = "str" /\ result.body.intent.s \in KnownIntents

(***************************************************************************)
(* C2: whenever the model's document declares one of the four known        *)
(* intents, in any letter case, the result's intent is the declared one,   *)
(* whatever the raw text contains.                                         *)
(***************************************************************************)
DeclaresKnown ==
  HasDoc /\ ModelDoc.intent.t = "str" /\ Upper(ModelDoc.intent.s) \in KnownIntents

C2_DeclaredIntentWins ==
  ParseReturned /\ DeclaresKnown => result.body.intent = JStr(Upper(ModelDoc.intent.s))

\* C2 as amended: a declared LOG, EXPENSE or MEMO, in any letter case, is the
\* result's intent whatever the raw text contains; a declared UNKNOWN is kept only
\* when the raw text holds no resolvable relative date phrase, and becomes MEMO
\* when it does.
C2_DeclaredIntentWinsUnlessUnknown ==
  ParseReturned /\ DeclaresKnown =>
    LET declared == Upper(ModelDoc.intent.s)
    IN  IF declared # UNKNOWN THEN result.body.intent = JStr(declared)
        ELSE IF Inferred.k = "date" THEN result.body.intent = JStr(MEMO)
        ELSE result.body.intent = JStr(UNKNOWN)

C2_Witness ==
  /\ ParseReturned /\ HasDoc
  /\ ModelDoc.intent = JStr(SLog)
  /\ Contains(KwTomorrow, input)
  /\ result.body.intent = JStr(LOG)

(***************************************************************************)
(* C3: when the model supplies no usable intent (an empty response, or a   *)
(* document without an intent field) and the raw text contains a           *)
(* recognised relative date phrase, /parse returns MEMO with dueDate =     *)
(* today + the phrase's offset and title = the trimmed raw input; with no  *)
(* recognised phrase it returns UNKNOWN.                                   *)
(***************************************************************************)
DocWithoutIntent == HasDoc /\ ModelDoc.intent.t = "absent"

DueIn(days) == JStr(IsoFormat(Midnight(today + days)))

GivenMemo ==
  IF DetTruthy(ModelDoc.memoDetails) THEN ModelDoc.memoDetails ELSE EmptyMemo

GivenDueParses ==
  /\ IsDict(GivenMemo)
  /\ GivenMemo.f.dueDate.t = "str"
  /\ ParseIsoDate(GivenMemo.f.dueDate.s).ok

DocLogOnly == Doc(JStr(LOG), LogVal(JAbsent), ExpVal(JAbsent), MemoVal(JAbsent))

C4_UnparseableIsUnknown ==
  ParseDone =>
    /\ ~IsJson => result = Return(OnlyUnknown)
    /\ IsJson => result = parse(input, <<Content[1]>>, today)
    /\ reply = Fenced(JsonTok(DocLogOnly)) =>
         result.status = "ok" /\ result.body.intent = JStr(LOG)

C4_Witness ==
  /\ ParseDone
  /\ reply = <<Tok("fence_json"), Tok("text"), Tok("fence")>>
  /\ Contains(KwTomorrow, input)
  /\ result = Return(OnlyUnknown)

(***************************************************************************)
(* C5: a model response that is JSON of the wrong shape (a top-level value *)
(* that is no object, an intent that is no string, a details value that is *)
(* a non-empty non-object) never makes /parse raise.                       *)
(***************************************************************************)
NonEmptyNonObject(d) == ~IsDict(d) /\ Truthy(d.v)

Malformed(doc) ==
  \/ doc.v.t \in {"list", "str", "int", "float"}
  \/ doc.intent.t \notin {"absent", "null", "str"}
  \/ NonEmptyNonObject(doc.logDetails)
  \/ NonEmptyNonObject(doc.expenseDetails)
  \/ NonEmptyNonObject(doc.memoDetails)

C5_MalformedNeverRaises ==
  ParseDone /\ IsJson /\ Malformed(Content[1].d) => result.status = "ok"

(***************************************************************************)
(* C6: with a configured model an empty reply is never an error: /parse    *)
(* returns UNKNOWN, /chat returns {text: ""}, /analyze returns a response  *)
(* with default values; a reply to /analyze that is not JSON degrades to   *)
(* the defaults as well.                                                   *)
(***************************************************************************)
Served(e) == pc = "done" /\ endpoint = e /\ configured

DefaultAnalysis ==
  [summary |-> JStr(NoSummary), risks |-> JList(0, <<>>), suggestions |-> JList(0, <<>>)]

ExpenseReturned == ParseReturned /\ result.body.intent = JStr(EXPENSE)

\* the expenseDetails the EXPENSE branch reads: {} for a missing or falsy value
GivenExpense ==
  IF DetTruthy(ModelDoc.expenseDetails) THEN ModelDoc.expenseDetails ELSE EmptyExp

C7_ExpenseAmount ==
  ExpenseReturned =>
    LET given  == GivenExpense.f.amount
        amount == result.body.expenseDetails.f.amount
    IN  /\ amount.t = "float" /\ amount.n >= 0
        /\ given.t \in {"absent", "null"} \/ ~PyFloat(given).ok => amount = JFloat(0)
        /\ given = JStr(SAmount) => amount = JFloat(1250)

(***************************************************************************)
(* C8: in every EXPENSE result expenseDetails.category is "Other" when the *)
(* model's category is missing, null or the empty string, and the model's  *)
(* category otherwise.                                                     *)
(***************************************************************************)
C8_ExpenseCategory ==
  ExpenseReturned =>
    LET given == GivenExpense.f.category
    IN  result.body.expenseDetails.f.category =
          (IF given.t \in {"absent", "null"} \/ given = JStr(<<>>)
           THEN JStr(Other) ELSE given)

(***************************************************************************)
(* C9: in every LOG result logDetails.value is never empty: it is the      *)
(* model's value coerced to text when the model supplied one, and the raw  *)
(* input verbatim otherwise.                                               *)
(***************************************************************************)
LogReturned == ParseReturned /\ result.body.intent = JStr(LOG)

\* the logDetails the LOG branch reads: {} for a missing or falsy value
GivenLog == IF DetTruthy(ModelDoc.logDetails) THEN ModelDoc.logDetails ELSE EmptyLog

C9_LogValueNeverEmpty ==
  LogReturned =>
    LET given == GivenLog.f.value
        value == result.body.logDetails.f.value
    IN  /\ value.t = "str" /\ value.s # <<>>
        /\ value.s = (IF given.t # "absent" THEN PyStr(given) ELSE input)

\* C9 as amended: in every LOG result logDetails.value is text: the model's value
\* coerced to text when logDetails has a value key (null becomes "None", an empty
\* string stays empty), and the raw input verbatim otherwise; so it is empty
\* exactly when the model's value is the empty string or, without a model value,
\* the raw input is empty.
C9_LogValueIsModelValueOrInput ==
  LogReturned =>
    LET given == GivenLog.f.value
        value == result.body.logDetails.f.value
    IN  /\ value.t = "str"
        /\ given.t = "str" => value.s = given.s
        /\ given.t = "null" => value.s = <<"N","o","n","e">>
        /\ given.t = "int" => value.s = PyStr(given)
        /\ given.t = "absent" => value.s = input
        /\ value.s = <<>> <=>
             \/ given = JStr(<<>>)
             \/ given.t = "absent" /\ input = <<>>

C9_Witness ==
  /\ LogReturned
  /\ GivenLog.f.value.t = "absent"
  /\ Lower(input) # input /\ Strip(input) # input
  /\ result.body.logDetails.f.value = JStr(input)

(***************************************************************************)
(* C10: in every LOG result logDetails.type is one of Feeding, Drinking,   *)
(* Activity, Sleep, Bathroom, Medical, Note, whatever type (present,       *)
(* absent, empty or unrecognised) the model's document carried.            *)
(***************************************************************************)
C10_LogTypeKnown ==
  LogReturned =>
    result.body.logDetails.f.type.t = "str" /\ result.body.logDetails.f.type.s \in LogType

(***************************************************************************)
(* Requests that log a behaviour: raw inputs made of words that hold       *)
(* keywords of keyword_map, and LOG documents with every kind of type.     *)
(***************************************************************************)
\* "Run" (walk/run row, upper case), "nap", "water", the word for eating, and a
\* word without a keyword
KeywordVocabulary == {
  <<"R","u","n"," ">>,
  <<"n","a","p">>,
  <<"w","a","t","e","r">>,
  <<"u5403">>,
  <<"x"," ">> }

\* the texts of at most n words of a vocabulary
RECURSIVE TextsOver(_, _)
TextsOver(words, n) ==
  IF n = 0 THEN {<<>>}
  ELSE TextsOver(words, n - 1) \cup {w \o t : w \in words, t \in TextsOver(words, n - 1)}

KeywordInputs == TextsOver(KeywordVocabulary, MaxWords)

KeywordDocs ==
  {Doc(JStr(SLog), l, ExpVal(JAbsent), MemoVal(JAbsent)) :
     l \in {LogVal(JAbsent)} \cup
           {LogObj(t, JAbsent, JAbsent) :
              t \in {JAbsent, JNull, JStr(<<>>), JStr(TSleep), JStr(SEating)}}}

KeywordReplies == {<<JsonTok(d)>> : d \in KeywordDocs}

KeywordNext ==
  \/ \E inp \in KeywordInputs, day \in Todays : ParseRequest(inp, day)
  \/ \E text \in KeywordReplies : Generate(text)
  \/ ParseReturn
  \/ Respond

KeywordSpec == Init /\ [][KeywordNext]_vars

\* the rows of keyword_map whose keyword occurs in the lowercased raw input
KeywordHits == {i \in 1..Len(keyword_map) : Contains(keyword_map[i].kw, Lower(input))}

\* the model's document carries no type: the key is missing, null or empty
NoTypeGiven == GivenLog.f.type.t \in {"absent", "null"} \/ GivenLog.f.type = JStr(<<>>)

(***************************************************************************)
(* C11: in a LOG result whose document carried no type, logDetails.type is *)
(* the type of the first row of the keyword table, in table order and not  *)
(* in order of position in the text, whose keyword occurs in the           *)
(* lowercased raw input, and Note when no keyword occurs; a type supplied  *)
(* by the model is never overridden by the keyword scan.                   *)
(***************************************************************************)
C11_KeywordTypeInTableOrder ==
  LogReturned =>
    LET type == result.body.logDetails.f.type
    IN  /\ NoTypeGiven /\ KeywordHits # {} =>
             \E i \in KeywordHits :
               /\ \A j \in KeywordHits : i <= j
               /\ type = JStr(keyword_map[i].type)
        /\ NoTypeGiven /\ KeywordHits = {} => type = JStr(TNote)
        /\ ~NoTypeGiven => type = GivenLog.f.type

\* the part of C11 the code keeps: with the type key missing the type is the
\* first hit in table order or Note, and a non-empty type is kept
C11_KeywordTypeWhenKeyMissing ==
  LogReturned =>
    LET type == result.body.logDetails.f.type
    IN  /\ GivenLog.f.type.t = "absent" /\ KeywordHits # {} =>
             \E i \in KeywordHits :
               /\ \A j \in KeywordHits : i <= j
               /\ type = JStr(keyword_map[i].type)
        /\ GivenLog.f.type.t = "absent" /\ KeywordHits = {} => type = JStr(TNote)
        /\ Truthy(GivenLog.f.type) => type = GivenLog.f.type

\* "Run nap": run comes first in the text, nap comes first in the table
C11_TableOrderReached ==
  /\ LogReturned
  /\ input = <<"R","u","n"," ","n","a","p">>
  /\ GivenLog.f.type.t = "absent"
  /\ result.body.logDetails.f.type = JStr(TSleep)

(***************************************************************************)
(* Requests that set a reminder: raw inputs made of the relative date      *)
(* phrases of _infer_due_date, served on two days, with documents that     *)
(* carry no dueDate.                                                       *)
(***************************************************************************)
DateVocabulary == {
  <<"t","o","m","o","r","r","o","w"," ">>,
  <<"u660e","u5929">>,
  <<"u540e","u5929">>,
  <<"I","n"," ","3"," ","D","a","y","s"," ">>,
  <<"3","u5929","u540e">>,
  <<"N","e","x","t"," ","W","e","e","k"," ">>,
  <<"n","e","x","t"," ","w","e","e","k">>,
  <<"u4e0b","u5468">>,
  <<"i","n"," ","9","9","9","9","9","9","9"," ","d","a","y","s">>,
  <<"x"," ">> }

DateInputs == TextsOver(DateVocabulary, MaxWords)

\* today + 3 is in the same month on the first day and in the next year on the second
DateTodays == {YmdToOrd(2026, 11, 2), YmdToOrd(2027, 12, 29)}

DateDocs ==
  {Doc(i, LogVal(JAbsent), ExpVal(JAbsent), MemoVal(JAbsent)) : i \in {JStr(SMemo), JAbsent}}

DateReplies == {<<JsonTok(d)>> : d \in DateDocs}

DateNext ==
  \/ \E inp \in DateInputs, day \in DateTodays : ParseRequest(inp, day)
  \/ \E text \in DateReplies : Generate(text)
  \/ ParseReturn
  \/ Respond

DateSpec == Init /\ [][DateNext]_vars

NoOffset == [found |-> FALSE, n |-> 0]

Offset(days) == [found |-> TRUE, n |-> days]

\* the priority chain of the claim over a text: the first pattern that occurs
PatternOffset(text) ==
  IF Contains(<<"t","o","m","o","r","r","o","w">>, text) \/ Contains(<<"u660e","u5929">>, text)
  THEN Offset(1)
  ELSE IF Contains(<<"u540e","u5929">>, text)
  THEN Offset(2)
  ELSE IF \E i \in 1..Len(text) : DayMatchAt(text, i)
  THEN Offset(DigitsToInt(DayMatchGroup(text, DayMatchStart(text))))
  ELSE IF \E i \in 1..Len(text) : ZhMatchAt(text, i)
  THEN Offset(DigitsToInt(ZhMatchGroup(text, ZhMatchStart(text))))
  ELSE IF Contains(<<"n","e","x","t"," ","w","e","e","k">>, text)
            \/ Contains(<<"u4e0b","u5468">>, text)
  THEN Offset(7)
  ELSE NoOffset

\* the model declared MEMO and gave no memoDetails: the dueDate is the inferred one
MemoWithoutDue ==
  /\ ParseDone /\ HasDoc
  /\ ModelDoc.intent = JStr(SMemo)
  /\ ModelDoc.memoDetails = MemoVal(JAbsent)

(***************************************************************************)
(* C12: for a fixed today the implicit date inference tries the fixed      *)
(* patterns in priority order and the first match wins: "tomorrow" / 明天  *)
(* gives today+1, then 后天 today+2, then "in N day(s)" (in any letter     *)
(* case) today+N, then "N天后" today+N, then "next week" / 下周 today+7; a *)
(* text with none of the patterns (here: in no letter case) is unresolved. *)
(* In particular "tomorrow" gives today+1 and "in 3 days" and "3天后" both *)
(* give today+3.                                                           *)
(***************************************************************************)
C12_PhrasePriority ==
  MemoWithoutDue =>
    /\ result.status = "ok"
    /\ PatternOffset(input).found =>
         result.body.memoDetails.f.dueDate = DueIn(PatternOffset(input).n)
    /\ ~PatternOffset(Lower(input)).found => result.body.memoDetails.f.dueDate = JNull
    /\ input = <<"i","n"," ","3"," ","d","a","y","s">> \/ input = <<"3","u5929","u540e">> =>
         result.body.memoDetails.f.dueDate = DueIn(3)

\* the part of C12 the code keeps: the chain, for offsets that stay within the
\* calendar
C12_PhrasePriorityWithinCalendar ==
  MemoWithoutDue /\ today + PatternOffset(input).n <= MaxOrdinal =>
    /\ result.status = "ok"
    /\ PatternOffset(input).found =>
         result.body.memoDetails.f.dueDate = DueIn(PatternOffset(input).n)
    /\ ~PatternOffset(Lower(input)).found => result.body.memoDetails.f.dueDate = JNull

\* "In 3 Days next week" on 2027-12-29: the numeric pattern wins over next week
C12_PriorityReached ==
  /\ MemoWithoutDue /\ result.status = "ok"
  /\ input = <<"I","n"," ","3"," ","D","a","y","s"," ","n","e","x","t"," ","w","e","e","k">>
  /\ today = YmdToOrd(2027, 12, 29)
  /\ result.body.memoDetails.f.dueDate =
       JStr(<<"2","0","2","8","-","0","1","-","0","1","T","0","0",":","0","0",":","0","0">>)

\* /parse returned a MEMO
MemoReturned == ParseReturned /\ result.body.intent = JStr(MEMO)

\* the model's document with the dueDate of its memoDetails taken out
WithoutDueDate(doc) == [doc EXCEPT !.memoDetails.f.dueDate = JAbsent]

(***************************************************************************)
(* C13: the dueDate of a MEMO result is resolved by a short-circuit chain: *)
(* the model's dueDate when it parses as ISO-8601, as a full timestamp or, *)
(* failing that, by its date portion before the first 'T'; otherwise the   *)
(* date inferred from the raw text; otherwise null.  A dueDate that parses *)
(* takes precedence over a resolvable phrase in the text; a dueDate that   *)
(* does not parse raises nothing and is replaced by the implicit           *)
(* inference: the request ends as it does without the dueDate.             *)
(***************************************************************************)
C13_DueDateChain ==
  ParseDone /\ HasDoc /\ IsDict(GivenMemo) =>
    LET given == GivenMemo.f.dueDate
        due   == result.body.memoDetails.f.dueDate
    IN  /\ MemoReturned =>
             /\ given = JStr(SDate) =>
                  due = JStr(<<"2","0","2","5","-","1","2","-","0","1","T",
                               "0","0",":","0","0",":","0","0">>)
             /\ given = JStr(SDateZ) =>
                  due = JStr(<<"2","0","2","5","-","1","2","-","0","1","T",
                               "1","0",":","0","0",":","0","0","+","0","0",":","0","0">>)
             /\ given = JStr(SDateBad) =>
                  due = JStr(<<"2","0","2","5","-","1","2","-","0","1","T",
                               "0","0",":","0","0",":","0","0">>)
             /\ given \notin {JStr(SDate), JStr(SDateZ), JStr(SDateBad)} =>
                  due = (IF Phrase.found THEN DueIn(Phrase.n) ELSE JNull)
        /\ ModelDoc.intent = JStr(MEMO) /\ given \in {JStr(SDate), JStr(SDateZ), JStr(SDateBad)} =>
             MemoReturned
        /\ given \notin {JAbsent, JStr(SDate), JStr(SDateZ), JStr(SDateBad)} =>
             LET other == parse(input, <<JsonTok(WithoutDueDate(ModelDoc))>>, today)
             IN  /\ result.status = other.status /\ result.exc = other.exc
                 /\ MemoReturned => result = other

\* the date portion of an explicit dueDate wins over "tomorrow" in the raw input
C13_Witness ==
  /\ MemoReturned /\ HasDoc /\ IsDict(GivenMemo)
  /\ GivenMemo.f.dueDate = JStr(SDateBad)
  /\ Contains(KwTomorrow, input)
  /\ result.body.memoDetails.f.dueDate # DueIn(1)

\* an explicit dueDate that does not parse is replaced by the inferred date
C13_InferenceReached ==
  /\ MemoReturned /\ HasDoc /\ IsDict(GivenMemo)
  /\ GivenMemo.f.dueDate = JStr(SSoon)
  /\ Contains(KwTomorrow, input)
  /\ result.body.memoDetails.f.dueDate = DueIn(1)

\* a field of the model's memoDetails as trimmed text (empty when the key is missing
\* or null)
TrimmedText(value) == IF value.t = "str" THEN Strip(value.s) ELSE <<>>

(***************************************************************************)
(* C14: in every MEMO result the title is the model's title when present   *)
(* and the raw input otherwise, and the notes are the first non-empty of   *)
(* the model's notes, the model's description and the raw input, in that   *)
(* order; both are returned trimmed, so notes that are empty after         *)
(* trimming do not win over a non-empty description.                       *)
(***************************************************************************)
C14_MemoTitleAndNotes ==
  MemoReturned /\ HasDoc /\ IsDict(GivenMemo) =>
    LET title       == GivenMemo.f.title
        notes       == TrimmedText(GivenMemo.f.notes)
        description == TrimmedText(GivenMemo.f.description)
    IN  /\ result.body.memoDetails.f.title =
             JStr(IF title.t = "str" /\ title.s # <<>> THEN Strip(title.s) ELSE Strip(input))
        /\ result.body.memoDetails.f.notes =
             JStr(IF notes # <<>> THEN notes
                  ELSE IF description # <<>> THEN description
                  ELSE Strip(input))

\* the part of C14 the code keeps: the title, and the notes whenever the model's
\* notes are missing or not blank
C14_MemoTitleAndNotesUnlessBlank ==
  MemoReturned /\ HasDoc /\ IsDict(GivenMemo) =>
    LET title       == GivenMemo.f.title
        notes       == TrimmedText(GivenMemo.f.notes)
        description == TrimmedText(GivenMemo.f.description)
    IN  /\ result.body.memoDetails.f.title =
             JStr(IF title.t = "str" /\ title.s # <<>> THEN Strip(title.s) ELSE Strip(input))
        /\ GivenMemo.f.notes.t = "absent" \/ notes # <<>> =>
             result.body.memoDetails.f.notes =
               JStr(IF notes # <<>> THEN notes
                    ELSE IF description # <<>> THEN description
                    ELSE Strip(input))

\* an absolute ISO-8601 timestamp: a date, 'T', a time of day, and possibly an offset
IsTimestamp(s) ==
  /\ Len(s) \in {19, 25}
  /\ IsIsoDate(SubSeq(s, 1, 10))
  /\ s[11] = "T"
  /\ IsIsoTime(SubSeq(s, 12, 19))
  /\ Len(s) = 25 => IsIsoOffset(SubSeq(s, 20, 25))

(***************************************************************************)
(* C15: every memoDetails /parse returns with intent MEMO has a title that *)
(* is non-empty text, the source "ai", and a dueDate that is null or an    *)
(* absolute ISO-8601 timestamp (never a relative phrase or the model's     *)
(* unparsed string), for every raw input, an empty or blank one included.  *)
(***************************************************************************)
C15_MemoDetailsInvariant ==
  MemoReturned =>
    LET memo == result.body.memoDetails
    IN  /\ IsDict(memo)
        /\ memo.f.title.t = "str" /\ memo.f.title.s # <<>>
        /\ memo.f.source = JStr(<<"a","i">>)
        /\ \/ memo.f.dueDate = JNull
           \/ memo.f.dueDate.t = "str" /\ IsTimestamp(memo.f.dueDate.s)

\* the part of C15 the code keeps: source and dueDate; the title is text, and is
\* empty exactly when what it is taken from is blank
C15_MemoSourceAndDueDate ==
  MemoReturned /\ HasDoc /\ IsDict(GivenMemo) =>
    LET memo == result.body.memoDetails
    IN  /\ IsDict(memo)
        /\ memo.f.title.t = "str"
        /\ memo.f.title.s = <<>> <=>
             Strip(IF Truthy(GivenMemo.f.title) THEN GivenMemo.f.title.s ELSE input) = <<>>
        /\ memo.f.source = JStr(<<"a","i">>)
        /\ \/ memo.f.dueDate = JNull
           \/ memo.f.dueDate.t = "str" /\ IsTimestamp(memo.f.dueDate.s)

\* a details key of the result holds an object
Present(details) == IsDict(details)

(***************************************************************************)
(* C16: in every /parse result a details object is present if and only if  *)
(* it matches the intent: logDetails exactly when the intent is LOG,       *)
(* expenseDetails exactly when it is EXPENSE, memoDetails exactly when it  *)
(* is MEMO, and none of the three when it is UNKNOWN, whatever extra       *)
(* details objects the model's document contained.                         *)
(***************************************************************************)
C16_DetailsMatchIntent ==
  ParseReturned =>
    /\ Present(result.body.logDetails) <=> result.body.intent = JStr(LOG)
    /\ Present(result.body.expenseDetails) <=> result.body.intent = JStr(EXPENSE)
    /\ Present(result.body.memoDetails) <=> result.body.intent = JStr(MEMO)

\* the part of C16 the code keeps: the details object of the intent is present,
\* and the other details keys are those of the model's document, unchanged
C16_DetailsOfIntentPresent ==
  ParseReturned /\ HasDoc =>
    /\ result.body.intent = JStr(LOG) => Present(result.body.logDetails)
    /\ result.body.intent = JStr(EXPENSE) => Present(result.body.expenseDetails)
    /\ result.body.intent = JStr(MEMO) => Present(result.body.memoDetails)
    /\ result.body.intent # JStr(LOG) => result.body.logDetails = ModelDoc.logDetails
    /\ result.body.intent # JStr(EXPENSE) =>
         result.body.expenseDetails = ModelDoc.expenseDetails
    /\ result.body.intent # JStr(MEMO) => result.body.memoDetails = ModelDoc.memoDetails

\* /parse returned a LOG, an EXPENSE or a MEMO
Normalised == ParseReturned /\ result.body.intent \in {JStr(LOG), JStr(EXPENSE), JStr(MEMO)}

C17_LogReached ==
  /\ LogReturned /\ HasDoc
  /\ GivenLog.f.type.t = "null" /\ GivenLog.f.value.t = "int"
  /\ result.body.logDetails.f.type = JStr(TSleep)
  /\ parse(input, <<JsonTok(result.body)>>, today) = result

\* an EXPENSE whose amount was coerced from text
C17_ExpenseReached ==
  /\ ExpenseReturned /\ HasDoc
  /\ GivenExpense.f.amount = JStr(SAmount)
  /\ result.body.expenseDetails.f.amount = JFloat(1250)
  /\ parse(input, <<JsonTok(result.body)>>, today) = result

\* the JSON value the model replied to /analyze
AnalysisDoc == Content[1].a

\* /analyze was served a reply that is JSON
AnalysisParsed == Served("analyze") /\ IsJson

\* the list the claim expects for a risks or suggestions value of the model
ExpectedList(value) ==
  CASE value.t = "list" -> value
    [] value.t = "str" -> JList(1, value.s)
    [] OTHER -> JList(0, <<>>)

(***************************************************************************)
(* C18: for every parseable reply to /analyze the summary of the response  *)
(* is the model's summary, or "No summary available." when the summary is  *)
(* absent or empty; risks and suggestions are always lists: a list is      *)
(* passed through, a bare string s becomes [s], any other value (null, a   *)
(* number, an object, or a reply that is not an object) becomes the empty  *)
(* list.                                                                   *)
(***************************************************************************)
C18_AnalysisDefensiveRead ==
  AnalysisParsed =>
    LET given == AnalysisDoc
        out   == result.analysis
    IN  /\ result.status = "ok"
        /\ out.risks.t = "list" /\ out.suggestions.t = "list"
        /\ given.v.t = "dict" =>
             /\ out.summary =
                  (IF given.summary.t \in {"absent", "null"} \/ given.summary = JStr(<<>>)
                   THEN JStr(NoSummary) ELSE given.summary)
             /\ out.risks = ExpectedList(given.risks)
             /\ out.suggestions = ExpectedList(given.suggestions)
        /\ given.v.t # "dict" =>
             /\ out.summary = JStr(NoSummary)
             /\ out.risks = JList(0, <<>>)
             /\ out.suggestions = JList(0, <<>>)

\* risks "obesity" becomes ["obesity"] and a missing summary the placeholder
C18_Witness ==
  /\ AnalysisParsed
  /\ AnalysisDoc.v.t = "dict"
  /\ AnalysisDoc.risks = JStr(SObesity)
  /\ AnalysisDoc.summary.t = "absent"
  /\ result.analysis.risks = JList(1, SObesity)
  /\ result.analysis.summary = JStr(NoSummary)

\* a reply that is JSON but no object gives the placeholder and two empty lists
C18_NonObjectReached ==
  /\ AnalysisParsed
  /\ AnalysisDoc.v.t = "list"
  /\ result.analysis = DefaultAnalysis

(***************************************************************************)
(* POST /auth/send-code and POST /auth/register.  A register request runs  *)
(* in one transaction: two queries, then db.commit(), which flushes the    *)
(* UPDATE of the code row and the INSERT of the user and commits them.     *)
(***************************************************************************)
\* the rows of a table with id order, as a set of ids
Ids(rows) == 1..Len(rows)

\* the filter of the code query without its expiry: email, code, is_used == False
Unused(rows, email, code) ==
  {i \in Ids(rows) : rows[i].email = email /\ rows[i].code = code /\ ~rows[i].is_used}

\* mutant: table users without the UNIQUE key on email
DuplicateEntry_NoUnique(email, rows) == FALSE

\* email VARCHAR(255) NOT NULL UNIQUE: the INSERT of a second row with the email
\* fails (IntegrityError 1062)
DuplicateEntry(email, rows) == \E i \in Ids(rows) : rows[i] = email

\* the requests being served
Serving == BagToSet(session)

\* what is left of a request once its queries are done: auth.code, the isolation
\* level and the snapshot are read no more
Queried(s) == [s EXCEPT !.code = "", !.isolation = "", !.seen = {}]

\* the request s goes on as t
Step(s, t) == session' = (session (-) SetToBag({s})) (+) SetToBag({t})

\* send_verification_code: the row is added and committed
SendCode(email, code) ==
  /\ Len(verification_codes) < MaxCodes
  /\ verification_codes' =
       Append(verification_codes,
              [email |-> email, code |-> code, expires_at |-> now + CodeMinutes,
               is_used |-> FALSE])
  /\ UNCHANGED <<users, now, session, registered>>
  /\ UNCHANGED vars

\* a register request reaches a free worker thread; get_db opens its session
Register(email, code, level) ==
  /\ BagCardinality(session) < MaxSessions
  /\ session' = session (+) SetToBag({NewSession(email, code, level)})
  /\ UNCHANGED <<users, verification_codes, now, registered>>
  /\ UNCHANGED vars

\* 1. the user query, the first read of the transaction: under REPEATABLE READ
\* the later query reads the rows as they are now
RegisterQueryUser(s) ==
  /\ s.pc = "query_user"
  /\ IF \E i \in Ids(users) : users[i] = s.email
     THEN Step(s, [Queried(s) EXCEPT !.pc = "failed", !.exc = "Email already registered"])
     ELSE Step(s, [s EXCEPT !.pc = "query_code",
                            !.seen = IF s.isolation = "REPEATABLE READ"
                                     THEN Unused(verification_codes, s.email, s.code)
                                     ELSE {}])
  /\ UNCHANGED <<users, verification_codes, now, registered>>
  /\ UNCHANGED vars

\* 2. the code query: .first() of the unused rows with the email and the code that
\* expire after utcnow(); without ORDER BY the database picks the row.
\* 3. verify_record.is_used = True and db.add(new_user), both pending
RegisterQueryCode(s) ==
  /\ s.pc = "query_code"
  /\ LET unused == IF s.isolation = "REPEATABLE READ" THEN s.seen
                   ELSE Unused(verification_codes, s.email, s.code)
         found  == {i \in unused : verification_codes[i].expires_at > now}
     IN  IF found = {}
         THEN Step(s, [Queried(s) EXCEPT !.pc = "failed",
                                         !.exc = "Invalid or expired verification code"])
         ELSE \E i \in found : Step(s, [Queried(s) EXCEPT !.pc = "flush", !.record = i])
  /\ UNCHANGED <<users, verification_codes, now, registered>>
  /\ UNCHANGED vars

\* the row locks of a flushed, uncommitted transaction make the flush of another
\* one with the same code row or the same email wait
Blocked(s) ==
  \E q \in Serving : q.pc = "commit" /\ (q.record = s.record \/ q.email = s.email)

\* 4. db.commit(), first half: the flush sends UPDATE verification_codes and
\* INSERT INTO users; a duplicate email raises IntegrityError out of the handler
\* and the session is closed without a commit
RegisterFlush(s) ==
  /\ s.pc = "flush"
  /\ ~Blocked(s)
  /\ IF DuplicateEntry(s.email, users)
     THEN Step(s, [s EXCEPT !.pc = "failed", !.exc = "IntegrityError"])
     ELSE Step(s, [s EXCEPT !.pc = "commit"])
  /\ UNCHANGED <<users, verification_codes, now, registered>>
  /\ UNCHANGED vars

\* db.commit(), second half: COMMIT; the handler returns the token
RegisterCommit(s) ==
  /\ s.pc = "commit"
  /\ users' = Append(users, s.email)
  /\ verification_codes' = [verification_codes EXCEPT ![s.record].is_used = TRUE]
  /\ registered' = Append(registered, [email |-> s.email, record |-> s.record])
  /\ Step(s, [s EXCEPT !.pc = "done"])
  /\ UNCHANGED now
  /\ UNCHANGED vars

\* the response is sent and get_db closes the session
Close(s) ==
  /\ s.pc \in {"done", "failed"}
  /\ session' = session (-) SetToBag({s})
  /\ UNCHANGED <<users, verification_codes, now, registered>>
  /\ UNCHANGED vars

\* time passes
Tick ==
  /\ now < MaxNow
  /\ now' = now + TickMinutes
  /\ UNCHANGED <<users, verification_codes, session, registered>>
  /\ UNCHANGED vars

AuthNext ==
  \/ \E email \in Emails, code \in CodeValues : SendCode(email, code)
  \/ \E email \in Emails, code \in RequestCodes, level \in Isolations :
       Register(email, code, level)
  \/ \E s \in Serving : RegisterQueryUser(s)
  \/ \E s \in Serving : RegisterQueryCode(s)
  \/ \E s \in Serving : RegisterFlush(s)
  \/ \E s \in Serving : RegisterCommit(s)
  \/ \E s \in Serving : Close(s)
  \/ Tick

\* the accounts are served whether or not the generative model is configured
AuthStart == Init /\ configured

AuthSpec == AuthStart /\ [][AuthNext]_<<vars, authVars>>

\* no two successful registrations share an email
OneRegistrationPerEmail ==
  \A i, j \in DOMAIN registered :
    i # j => registered[i].email # registered[j].email

\* no two successful registrations used the same code row
OneRegistrationPerCode ==
  \A i, j \in DOMAIN registered :
    i # j => registered[i].record # registered[j].record

\* the register requests that have failed
Failed == {s \in Serving : s.pc = "failed"}

\* in this step a register request fails
RegisterFails ==
  \E s \in BagToSet(session') :
    s.pc = "failed" /\ CopiesIn(s, session') > CopiesIn(s, session)

(***************************************************************************)
(* C19: under any interleaving of concurrent /auth/send-code and           *)
(* /auth/register requests at most one registration succeeds per email,    *)
(* and each verification-code row is consumed by at most one successful    *)
(* registration; a register request that fails (email already registered,  *)
(* or code wrong, used or expired) leaves users and verification codes     *)
(* unchanged.                                                              *)
(***************************************************************************)
C19_RegistrationIsExclusive ==
  /\ [](OneRegistrationPerEmail /\ OneRegistrationPerCode)
  /\ [][RegisterFails => UNCHANGED <<users, verification_codes>>]_<<vars, authVars>>

\* two requests raced with the same code row: both found it unused, one
\* registered, the INSERT of the other was refused
C19_Witness ==
  \E s \in Failed :
    /\ s.exc = "IntegrityError"
    /\ \E i \in DOMAIN registered :
         registered[i] = [email |-> s.email, record |-> s.record]

\* the requests about to run the code query
Querying == {s \in Serving : s.pc = "query_code"}

\* a request is about to find the row of its code used: the email was registered
\* after the request had looked for the user
C19_UsedReached ==
  \E s \in Querying :
    /\ s.isolation = "READ COMMITTED"
    /\ Unused(verification_codes, s.email, s.code) = {}
    /\ \E i \in Ids(verification_codes) :
         /\ verification_codes[i].is_used
         /\ verification_codes[i].email = s.email
         /\ verification_codes[i].code = s.code

\* a request is about to find the row of its code expired
C19_ExpiredReached ==
  \E s \in Querying :
    /\ s.isolation = "READ COMMITTED"
    /\ Unused(verification_codes, s.email, s.code) # {}
    /\ \A i \in Unused(verification_codes, s.email, s.code) :
         verification_codes[i].expires_at <= now

\* a request with a code that was never sent has failed
C19_WrongCodeReached ==
  /\ \E s \in Failed : s.exc = "Invalid or expired verification code"
  /\ \A i \in Ids(verification_codes) :
       ~verification_codes[i].is_used /\ verification_codes[i].expires_at > now
  /\ users = <<>>

\* a request fails on an email that is registered
C19_RegisteredReached ==
  \E s \in Failed : s.exc = "Email already registered"

====
